---- MODULE Spec2Model ----
(***************************************************************************)
(* Model of the AI BI Copilot backend:                                     *)
(*   - backend/utils/config.py : the provider/model lists, the client      *)
(*     factory get_llm_with_fallback and the cascade invoke_with_fallback  *)
(*   - backend/graph/workflow.py + backend/main.py : the six-node          *)
(*     sequential workflow and run_workflow, the background task that      *)
(*     executes it, with the trigger analyze_dataset and get_status;       *)
(*   - backend/agents : the operations that await the cascade              *)
(*     (answer_query, execute_query, summarize_dataset) and run_forecast.  *)
(***************************************************************************)
EXTENDS Integers, Sequences, FiniteSets, TLC

(***************************************************************************)
(* Bounds of the model (not program constants).                            *)
(***************************************************************************)
\* number of distinct message lists a caller may send
MaxMessages == 2
\* number of pipeline runs (task ids) that may be triggered
MaxRuns == 2

(***************************************************************************)
(* backend/utils/config.py : static configuration                          *)
(***************************************************************************)
OLLAMA_MODELS == << "qwen2.5:7b" >>

GROQ_MODELS == << "llama-3.1-8b-instant",
                  "qwen/qwen3-32b",
                  "meta-llama/llama-4-scout-17b-16e-instruct",
                  "meta-llama/llama-4-maverick-17b-128e-instruct",
                  "openai/gpt-oss-120b",
                  "gemma2-9b-it",
                  "llama-3.3-70b-versatile" >>

OPENROUTER_MODELS == << "google/gemini-2.0-flash-exp:free",
                        "meta-llama/llama-3.3-70b-instruct:free",
                        "deepseek/deepseek-r1:free",
                        "qwen/qwen-2.5-72b-instruct:free",
                        "nousresearch/hermes-3-llama-3.1-405b:free",
                        "mistralai/mistral-nemo:free",
                        "microsoft/phi-3-mini-128k-instruct:free" >>

HUGGINGFACE_MODELS == << "google/flan-t5-large",
                         "google/flan-t5-base",
                         "google/flan-t5-small" >>

\* the provider names get_llm_with_fallback recognises
Providers == {"ollama", "groq", "openrouter", "huggingface"}

\* the lists as they are written in config.py
ShippedModels ==
    [p \in Providers |->
        CASE p = "ollama"      -> OLLAMA_MODELS
          [] p = "groq"        -> GROQ_MODELS
          [] p = "openrouter"  -> OPENROUTER_MODELS
          [] p = "huggingface" -> HUGGINGFACE_MODELS]

\* the module-level lists of the running process, per provider: the code
\* reads them with len() and [] at every call and never checks them
VARIABLE models

\* the model list the code consults for a provider name
ModelsOf(p) == IF p \in Providers THEN models[p] ELSE << >>

\* the message lists callers send
MessageLists == 1..MaxMessages

\* faulty variant: the safe-mode reply quotes the messages it was sent
MockChatLLM_echo(msgs) ==
    << "**System Notice:** All AI providers are currently at capacity. Please try again in a few minutes.", msgs >>

\* A reply is a pair: the text, and the message list the text depends on
\* (0 when it depends on none).
\* MockChatLLM: model_name and the constant content of its reply
MockModelName == "mock-fallback"
MockChatLLM_ainvoke(msgs) ==
    << "**System Notice:** All AI providers are currently at capacity. Please try again in a few minutes.", 0 >>

\* what a real client answers: depends on the model asked and on the messages
ClientReply(p, i, msgs) == << ModelsOf(p)[i + 1], msgs >>

\* the position recorded in the attempt log for the terminal safe-mode step
SafeMode == << MockModelName, 0 >>

NoResult == << "<no result>", 0 >>

(***************************************************************************)
(* State                                                                   *)
(***************************************************************************)
VARIABLES
    \* --- the process environment, fixed when the module is imported -------
    construct,              \* per provider: what building a client does
    \* --- backend/utils/config.py module globals ---------------------------
    current_provider,       \* _current_provider
    current_model_index,    \* _current_model_index
    \* --- one caller of invoke_with_fallback -------------------------------
    pc,                     \* "idle" | "inflight" | "done" | "raised"
    start,                  \* (provider, model_index) the caller passed
    llm,                    \* client of the innermost frame
    provider,               \* provider argument of the innermost frame
    model_index,            \* model_index argument of the innermost frame
    messages,               \* the message list of the call
    attempted,              \* positions on which ainvoke was called, in order
    failed,                 \* positions whose ainvoke raised, in order
    result,                 \* what the call returned to its caller
    \* --- backend/agents: the operation awaiting the call ------------------
    caller,                 \* "<none>", "direct", or the agent operation
    op_result,              \* what the last agent operation returned
    \* --- backend/main.py: the upload directory and the HTTP answers -------
    uploads,                \* files in UPLOAD_DIR: << task_id, file name >>
    response,               \* per task id: what analyze_dataset answered
    \* --- backend/main.py run_workflow, one background task per task id ----
    run_status,             \* "None" | "Pending" | "Running" | "Completed" | "Failed"
    wf_result,              \* run_workflow's local `result`
    \* --- the compiled graph's execution of one ainvoke --------------------
    state,                  \* the AgentState of the run
    pending,                \* nodes scheduled and not yet invoked
    running,                \* nodes invoked and not yet returned
    stepdone,               \* nodes that returned in the current step
    executed,               \* nodes invoked so far, in order
    returned,               \* nodes whose fragment was merged
    raised,                 \* the node whose exception ended the run
    \* --- backend/main.py get_status --------------------------------------
    status_reply,           \* the last poll: << task id, status answered >>
    \* --- backend/main.py sql_query / semantic_query ----------------------
    last_query,             \* the last query request and what became of it
    \* --- coroutines awaiting invoke_with_fallback on the event loop ------
    tasks,                  \* per task: the innermost frame's await
    \* --- huggingface_space/app.py ----------------------------------------
    api_keys,               \* providers whose *_API_KEY is set
    space_pc,               \* "idle", the provider being called, "returned"
    space_prompt,           \* the prompt of the call
    space_calls,            \* call_* functions entered, in order
    space_errors,           \* the local list `errors`
    space_reply             \* what get_llm_response returned

pipeVars == << uploads, response, run_status, wf_result, state, pending,
               running, stepdone, executed, returned, raised, status_reply >>

appVars == << last_query, tasks, api_keys, space_pc, space_prompt,
              space_calls, space_errors, space_reply >>

invokeVars == << models, construct, current_provider, current_model_index,
                 pc, start, llm, provider, model_index, messages, attempted,
                 failed, result, caller, op_result >>

(***************************************************************************)
(* get_llm_with_fallback: the client for (provider, model_index).          *)
(* "client" is a provider client, "none" is Python's None and "raise" is  *)
(* an exception leaving the function.  An index past the model list        *)
(* gives None before anything is built.  Building the client is a call     *)
(* into the provider's package: for ollama and groq nothing guards it, for *)
(* openrouter and huggingface a missing key or package (ImportError) gives *)
(* None and any other exception leaves the function.                       *)
(***************************************************************************)
ConstructOutcomes(p) ==
    IF p \in {"openrouter", "huggingface"}
    THEN {"client", "none", "raise"}
    ELSE {"client", "raise"}

get_llm_with_fallback(p, i) ==
    IF p \in Providers
    THEN IF i >= Len(ModelsOf(p)) THEN "none" ELSE construct[p]
    ELSE "none"

(***************************************************************************)
(* Faulty variants of the except branch, used to show that the properties  *)
(* below depend on it.                                                     *)
(***************************************************************************)
\* the last provider falls back to the first one instead of to safe mode
NextPosition_wrap(p, i) ==
    IF i < Len(ModelsOf(p)) - 1 THEN << p, i + 1 >>
    ELSE IF p = "ollama" THEN << "groq", 0 >>
    ELSE IF p = "groq" THEN << "openrouter", 0 >>
    ELSE IF p = "openrouter" THEN << "huggingface", 0 >>
    ELSE << "ollama", 0 >>

\* openrouter falls back to groq, a provider that was already tried
NextPosition_back(p, i) ==
    IF i < Len(ModelsOf(p)) - 1 THEN << p, i + 1 >>
    ELSE IF p = "ollama" THEN << "groq", 0 >>
    ELSE IF p = "groq" THEN << "openrouter", 0 >>
    ELSE IF p = "openrouter" THEN << "groq", 0 >>
    ELSE SafeMode

\* the step to the next model of the same provider skips one model
NextPosition_skip(p, i) ==
    IF i < Len(ModelsOf(p)) - 2 THEN << p, i + 2 >>
    ELSE IF p = "ollama" THEN << "groq", 0 >>
    ELSE IF p = "groq" THEN << "openrouter", 0 >>
    ELSE IF p = "openrouter" THEN << "huggingface", 0 >>
    ELSE SafeMode

\* openrouter exhausted goes straight to safe mode, huggingface is forgotten
NextPosition_early(p, i) ==
    IF i < Len(ModelsOf(p)) - 1 THEN << p, i + 1 >>
    ELSE IF p = "ollama" THEN << "groq", 0 >>
    ELSE IF p = "groq" THEN << "openrouter", 0 >>
    ELSE SafeMode

\* the local model is the last resort: cloud providers first, then ollama
NextPosition_local_last(p, i) ==
    IF i < Len(ModelsOf(p)) - 1 THEN << p, i + 1 >>
    ELSE IF p = "groq" THEN << "openrouter", 0 >>
    ELSE IF p = "openrouter" THEN << "huggingface", 0 >>
    ELSE IF p = "huggingface" THEN << "ollama", 0 >>
    ELSE SafeMode

(***************************************************************************)
(* invoke_with_fallback, except branch: where the cascade goes after the   *)
(* attempt at (p, i) raised.  Step 1 tries the next model of the current   *)
(* provider, step 2 switches provider, step 3 is the final fallback.       *)
(***************************************************************************)
NextPosition(p, i) ==
    IF p = "ollama" /\ i < Len(models["ollama"]) - 1
    THEN << "ollama", i + 1 >>
    ELSE IF p = "groq" /\ i < Len(models["groq"]) - 1
         THEN << "groq", i + 1 >>
    ELSE IF p = "openrouter" /\ i < Len(models["openrouter"]) - 1
         THEN << "openrouter", i + 1 >>
    ELSE IF p = "huggingface" /\ i < Len(models["huggingface"]) - 1
         THEN << "huggingface", i + 1 >>
    ELSE IF p = "ollama" THEN << "groq", 0 >>
    ELSE IF p = "groq" THEN << "openrouter", 0 >>
    ELSE IF p = "openrouter" THEN << "huggingface", 0 >>
    ELSE SafeMode

(***************************************************************************)
(* One frame of invoke_with_fallback(l, msgs, p, i), run from its entry to *)
(* the next point where the coroutine really waits (a request in flight),  *)
(* or to its end.  att and fl are the attempt and failure logs so far.     *)
(*   - a MockChatLLM answers at once with the fixed text;                  *)
(*   - None has no ainvoke: the call raises at once and the except branch  *)
(*     runs (InvokeExcept);                                                *)
(*   - a real client sends the request and the coroutine waits.            *)
(* InvokeExcept is the except branch: it records the failure, picks the    *)
(* next position, obtains its client (which may raise out of the whole     *)
(* call) and recurses.                                                     *)
(***************************************************************************)
RECURSIVE InvokeFrame(_, _, _, _, _, _)
RECURSIVE InvokeExcept(_, _, _, _, _)

InvokeExcept(msgs, p, i, att, fl) ==
    LET nxt == NextPosition(p, i)
        fl2 == Append(fl, << p, i >>)
    IN  IF nxt = SafeMode
        THEN [pc |-> "done", llm |-> "mock", provider |-> p, model_index |-> i,
              attempted |-> Append(att, SafeMode), failed |-> fl2,
              result |-> MockChatLLM_ainvoke(msgs)]
        ELSE LET l == get_llm_with_fallback(nxt[1], nxt[2])
             IN  IF l = "raise"
                 THEN [pc |-> "raised", llm |-> "raise", provider |-> p,
                       model_index |-> i, attempted |-> att, failed |-> fl2,
                       result |-> NoResult]
                 ELSE InvokeFrame(l, msgs, nxt[1], nxt[2], att, fl2)

InvokeFrame(l, msgs, p, i, att, fl) ==
    IF l = "mock"
    THEN [pc |-> "done", llm |-> l, provider |-> p, model_index |-> i,
          attempted |-> Append(att, SafeMode), failed |-> fl,
          result |-> MockChatLLM_ainvoke(msgs)]
    ELSE IF l = "none"
    THEN InvokeExcept(msgs, p, i, Append(att, << p, i >>), fl)
    ELSE [pc |-> "inflight", llm |-> l, provider |-> p, model_index |-> i,
          attempted |-> Append(att, << p, i >>), failed |-> fl,
          result |-> NoResult]

\* write a frame's outcome into the caller's state
Resume(f) ==
    /\ pc' = f.pc
    /\ llm' = f.llm
    /\ provider' = f.provider
    /\ model_index' = f.model_index
    /\ attempted' = f.attempted
    /\ failed' = f.failed
    /\ result' = f.result

(***************************************************************************)
(* Actions of the invoker                                                  *)
(***************************************************************************)
\* the positions a caller may start from: the entries of the model lists
StartPositions ==
    UNION { { << p, i >> : i \in 0..(Len(ModelsOf(p)) - 1) } : p \in Providers }

\* the clients a caller can hold for a start position: the one the factory
\* gave it when the agent was built (an agent whose factory call raised was
\* never built), or a MockChatLLM
StartClients(p, i) ==
    ({ get_llm_with_fallback(p, i) } \ {"raise"}) \cup {"mock"}

NoPosition == << "<none>", 0 >>

\* faulty variant: the entry position is recorded before anything is tried
CallInvoke_records_entry(p, i, msgs, l) ==
    /\ pc = "idle"
    /\ l \in StartClients(p, i)
    /\ start' = << p, i >>
    /\ messages' = msgs
    /\ Resume(InvokeFrame(l, msgs, p, i, << >>, << >>))
    /\ current_provider' = p
    /\ current_model_index' = i
    /\ caller' = "direct"
    /\ UNCHANGED << models, construct, op_result >>
    /\ UNCHANGED pipeVars
    /\ UNCHANGED appVars

\* a caller awaits invoke_with_fallback(l, msgs, p, i)
CallInvoke(p, i, msgs, l) ==
    /\ pc = "idle"
    /\ l \in StartClients(p, i)
    /\ start' = << p, i >>
    /\ messages' = msgs
    /\ Resume(InvokeFrame(l, msgs, p, i, << >>, << >>))
    /\ caller' = "direct"
    /\ UNCHANGED << models, construct, current_provider, current_model_index,
                    op_result >>
    /\ UNCHANGED pipeVars
    /\ UNCHANGED appVars

\* faulty variant: the position the call started from is recorded
ProviderSucceeds_records_start ==
    /\ pc = "inflight"
    /\ current_provider' = start[1]
    /\ current_model_index' = start[2]
    /\ result' = ClientReply(provider, model_index, messages)
    /\ pc' = "done"
    /\ UNCHANGED << models, construct, start, llm, provider, model_index, messages,
                    attempted, failed >>
    /\ UNCHANGED << caller, op_result >>
    /\ UNCHANGED pipeVars
    /\ UNCHANGED appVars

\* the request in flight is answered: lines 147-150
ProviderSucceeds ==
    /\ pc = "inflight"
    /\ current_provider' = provider
    /\ current_model_index' = model_index
    /\ result' = ClientReply(provider, model_index, messages)
    /\ pc' = "done"
    /\ UNCHANGED << models, construct, start, llm, provider, model_index, messages,
                    attempted, failed >>
    /\ UNCHANGED << caller, op_result >>
    /\ UNCHANGED pipeVars
    /\ UNCHANGED appVars

\* faulty variant: the failed position is recorded as the current one
ProviderFails_records_failed ==
    /\ pc = "inflight"
    /\ Resume(InvokeExcept(messages, provider, model_index, attempted, failed))
    /\ current_provider' = provider
    /\ current_model_index' = model_index
    /\ UNCHANGED << models, construct, start, messages >>
    /\ UNCHANGED << caller, op_result >>
    /\ UNCHANGED pipeVars
    /\ UNCHANGED appVars

\* the request in flight raises: lines 152-189
ProviderFails ==
    /\ pc = "inflight"
    /\ Resume(InvokeExcept(messages, provider, model_index, attempted, failed))
    /\ UNCHANGED << models, construct, current_provider, current_model_index, start,
                    messages >>
    /\ UNCHANGED << caller, op_result >>
    /\ UNCHANGED pipeVars
    /\ UNCHANGED appVars

\* the caller takes the result (or the exception) and the call is over
ReturnToCaller ==
    /\ pc \in {"done", "raised"}
    /\ caller = "direct"
    /\ caller' = "<none>"
    /\ pc' = "idle"
    /\ start' = NoPosition
    /\ llm' = "none"
    /\ provider' = "<none>"
    /\ model_index' = 0
    /\ messages' = 0
    /\ attempted' = << >>
    /\ failed' = << >>
    /\ result' = NoResult
    /\ UNCHANGED << models, construct, current_provider, current_model_index,
                    op_result >>
    /\ UNCHANGED pipeVars
    /\ UNCHANGED appVars

\* reset_model_index()
reset_model_index ==
    /\ current_provider' = "ollama"
    /\ current_model_index' = 0
    /\ UNCHANGED << models, construct, pc, start, llm, provider, model_index, messages,
                    attempted, failed, result >>
    /\ UNCHANGED << caller, op_result >>
    /\ UNCHANGED pipeVars
    /\ UNCHANGED appVars

(***************************************************************************)
(* backend/agents: the operations that ask for text.  Each awaits          *)
(* invoke_with_fallback(self.llm, messages, provider="groq") inside a try  *)
(* block and builds its result from the reply, or from the exception.      *)
(* A result is [keys: the keys of the dict returned, status: the value of  *)
(* its "status" key ("None" when it has none), text: the text it carries]. *)
(***************************************************************************)
AgentOps == {"answer_query", "execute_query", "summarize_dataset"}

\* self.llm: built once, in __init__, by get_llm_with_fallback("groq", 0)
self_llm == get_llm_with_fallback("groq", 0)

EmptyText == << "", 0 >>

\* the fixed notice is neither SQL nor JSON; what a model wrote may be
IsNotice(text) == text[1] = MockChatLLM_ainvoke(0)[1]

\* SemanticQueryAgent.answer_query, after the await
answer_query(exc, reply) ==
    IF exc
    THEN { [keys |-> {"error", "status"}, status |-> "failed",
            text |-> << "str(e)", 0 >>] }
    ELSE { [keys |-> {"query", "answer", "status"}, status |-> "success",
            text |-> reply] }

\* SQLAgent.generate_sql, after the await: the reply without its code
\* fences, stripped (the notice has no fence and is not blank), or ""
generate_sql(exc, reply) ==
    IF exc THEN { EmptyText }
    ELSE IF IsNotice(reply) THEN { reply }
    ELSE { reply, EmptyText }

\* pd.read_sql_query(sql_query, conn): rows, or an exception
read_sql_query(sql) == IF IsNotice(sql) THEN {"raise"} ELSE {"rows", "raise"}

\* SQLAgent.execute_query, after generate_sql
execute_query(exc, reply) ==
    UNION { IF sql = EmptyText
            THEN { [keys |-> {"error"}, status |-> "None",
                    text |-> << "Failed to generate SQL.", 0 >>] }
            ELSE { IF o = "rows"
                   THEN [keys |-> {"query", "sql", "result", "row_count"},
                         status |-> "None", text |-> sql]
                   ELSE [keys |-> {"error", "sql"}, status |-> "None",
                         text |-> sql] : o \in read_sql_query(sql) } :
            sql \in generate_sql(exc, reply) }

\* json.loads(content.strip()): a dict, or an exception
json_loads(content) ==
    IF IsNotice(content) THEN {"raise"} ELSE {"dict", "raise"}

\* DataInterpreter.summarize_dataset, after the await
summarize_dataset(exc, reply) ==
    { IF ~ exc /\ o = "dict"
      THEN [keys |-> {"description", "key_entities", "potential_analyses"},
            status |-> "None", text |-> reply]
      ELSE [keys |-> {"description", "key_entities", "potential_analyses"},
            status |-> "None", text |-> << "Could not generate summary.", 0 >>] :
      o \in IF exc THEN {"raise"} ELSE json_loads(reply) }

AgentOutcomes(op, exc, reply) ==
    CASE op = "answer_query"      -> answer_query(exc, reply)
      [] op = "execute_query"     -> execute_query(exc, reply)
      [] op = "summarize_dataset" -> summarize_dataset(exc, reply)

NoOpResult ==
    [op |-> "<none>", reply |-> NoResult, keys |-> {}, status |-> "None",
     text |-> NoResult]

\* faulty variant: the agent resumes at the position recorded by the last
\* successful call instead of at its configured start
AgentCall_sticky(op, msgs) ==
    /\ pc = "idle"
    /\ get_llm_with_fallback(current_provider, current_model_index) # "raise"
    /\ start' = << current_provider, current_model_index >>
    /\ messages' = msgs
    /\ Resume(InvokeFrame(
          get_llm_with_fallback(current_provider, current_model_index),
          msgs, current_provider, current_model_index, << >>, << >>))
    /\ caller' = op
    /\ op_result' = NoOpResult
    /\ UNCHANGED << models, construct, current_provider, current_model_index >>
    /\ UNCHANGED pipeVars
    /\ UNCHANGED appVars

\* an agent operation builds its messages and awaits the cascade
AgentCall(op, msgs) ==
    /\ pc = "idle"
    /\ self_llm # "raise"
    /\ start' = << "groq", 0 >>
    /\ messages' = msgs
    /\ Resume(InvokeFrame(self_llm, msgs, "groq", 0, << >>, << >>))
    /\ caller' = op
    /\ op_result' = NoOpResult
    /\ UNCHANGED << models, construct, current_provider, current_model_index >>
    /\ UNCHANGED pipeVars
    /\ UNCHANGED appVars

\* the await is over: the operation builds and returns its result
AgentReturn ==
    /\ pc \in {"done", "raised"}
    /\ caller \in AgentOps
    /\ \E d \in AgentOutcomes(caller, pc = "raised", result) :
          op_result' = [op |-> caller, reply |-> result, keys |-> d.keys,
                        status |-> d.status, text |-> d.text]
    /\ caller' = "<none>"
    /\ pc' = "idle"
    /\ start' = NoPosition
    /\ llm' = "none"
    /\ provider' = "<none>"
    /\ model_index' = 0
    /\ messages' = 0
    /\ attempted' = << >>
    /\ failed' = << >>
    /\ result' = NoResult
    /\ UNCHANGED << models, construct, current_provider, current_model_index >>
    /\ UNCHANGED pipeVars
    /\ UNCHANGED appVars

\* configurations of the model lists: the shipped one, and ones with a list
\* left empty
Configurations ==
    { ShippedModels,
      [ShippedModels EXCEPT !["groq"] = << >>],
      [ShippedModels EXCEPT !["huggingface"] = << >>],
      [p \in Providers |-> << >>] }

InitCall ==
    /\ current_provider = "ollama"
    /\ current_model_index = 0
    /\ pc = "idle"
    /\ start = NoPosition
    /\ llm = "none"
    /\ provider = "<none>"
    /\ model_index = 0
    /\ messages = 0
    /\ attempted = << >>
    /\ failed = << >>
    /\ result = NoResult
    /\ caller = "<none>"
    /\ op_result = NoOpResult

InitInvoke ==
    /\ models = ShippedModels
    /\ InitCall
    /\ construct \in { c \in [Providers -> {"client", "none", "raise"}] :
                          \A p \in Providers : c[p] \in ConstructOutcomes(p) }

NextAgents ==
    \/ \E op \in AgentOps, msgs \in MessageLists : AgentCall(op, msgs)
    \/ ProviderSucceeds
    \/ ProviderFails
    \/ AgentReturn

NextInvoke ==
    \/ \E pos \in StartPositions, msgs \in MessageLists :
          \E l \in StartClients(pos[1], pos[2]) :
             CallInvoke(pos[1], pos[2], msgs, l)
    \/ ProviderSucceeds
    \/ ProviderFails
    \/ ReturnToCaller
    \/ reset_model_index

(***************************************************************************)
(* backend/graph/workflow.py : the graph                                   *)
(***************************************************************************)
END == "__end__"

\* workflow.add_node(...)
Nodes == {"interpret", "quality", "statistics", "visualization", "forecast",
          "report"}

\* workflow.set_entry_point("interpret")
entry_point == "interpret"

\* faulty variant: interpret also fans out to statistics
edges_parallel ==
    { << "interpret", "quality" >>, << "interpret", "statistics" >>,
      << "quality", "statistics" >>, << "statistics", "visualization" >>,
      << "visualization", "forecast" >>, << "forecast", "report" >>,
      << "report", END >> }

\* workflow.add_edge(...)
edges ==
    { << "interpret", "quality" >>, << "quality", "statistics" >>,
      << "statistics", "visualization" >>, << "visualization", "forecast" >>,
      << "forecast", "report" >>, << "report", END >> }

\* the nodes the graph schedules once the nodes of S have returned
Successors(S) == { e[2] : e \in { d \in edges : d[1] \in S } } \ {END}

(***************************************************************************)
(* Values.  Task ids stand for the uuid4 strings; every value held in the  *)
(* state is a pair << what it is, the run that made it >>.                 *)
(***************************************************************************)
RunIds == 1..MaxRuns

\* names of uploaded files: a table with a date column and a numeric column,
\* a table without such a pair, and a file load_data rejects
FileNames == {"sales.csv", "data.csv", "notes.txt"}

\* os.path.join(UPLOAD_DIR, f"{task_id}_{file.filename}")
FilePath(task_id, name) == << task_id, name >>

\* run_workflow: initial_state
InitialState(task_id, file_path) ==
    [file_path      |-> file_path,
     task_id        |-> task_id,
     df             |-> << "None", 0 >>,
     summary        |-> << "{}", 0 >>,
     quality_report |-> << "{}", 0 >>,
     statistics     |-> << "{}", 0 >>,
     visualizations |-> << "{}", 0 >>,
     forecast       |-> << {}, 0 >>,
     final_report   |-> << "{}", 0 >>]

\* no state: run_workflow has not built one, or `result` is not bound
NoState == InitialState(0, << 0, "" >>)

\* DataInterpreter.load_data: only .csv, .xls and .xlsx are read
Loadable(file_path) == file_path[2] \in {"sales.csv", "data.csv"}

\* the frame load_data reads from a file it accepts
load_data(file_path) ==
    IF file_path[2] = "sales.csv" THEN "TimeSeriesFrame" ELSE "DataFrame"

\* ForecastingAgent.detect_time_series: a (date, numeric) pair of columns
detect_time_series(df) == df[1] = "TimeSeriesFrame"

\* a dict is the set of its << key, value >> items
Keys(d) == { kv[1] : kv \in d }

Get(d, k) == IF k \in Keys(d) THEN (CHOOSE kv \in d : kv[1] = k)[2] ELSE "None"

\* faulty variant: the failed result carries no error text
run_forecast_bare_failure(df) ==
    IF ~ detect_time_series(df)
    THEN { { << "status", "skipped" >>,
             << "reason", "No date/numeric pair found" >> } }
    ELSE { { << "status", "success" >>, << "target_column", "y" >>,
             << "forecast_plot", "<uuid>_forecast.png" >>,
             << "components_plot", "<uuid>_components.png" >>,
             << "forecast_data", "records" >> },
           { << "status", "failed" >> } }

\* faulty variant: the skipped result says nothing about why
run_forecast_noreason(df) ==
    IF ~ detect_time_series(df)
    THEN { { << "status", "skipped" >> } }
    ELSE { { << "status", "success" >>, << "target_column", "y" >>,
             << "forecast_plot", "<uuid>_forecast.png" >>,
             << "components_plot", "<uuid>_components.png" >>,
             << "forecast_data", "records" >> },
           { << "status", "failed" >>, << "error", "str(e)" >> } }

\* ForecastingAgent.run_forecast: the dicts it can return
run_forecast(df) ==
    IF ~ detect_time_series(df)
    THEN { { << "status", "skipped" >>,
             << "reason", "No date/numeric pair found" >> } }
    ELSE { { << "status", "success" >>, << "target_column", "y" >>,
             << "forecast_plot", "<uuid>_forecast.png" >>,
             << "components_plot", "<uuid>_components.png" >>,
             << "forecast_data", "records" >> },
           { << "status", "failed" >>, << "error", "str(e)" >> } }

(***************************************************************************)
(* The nodes: the fragments a node can return in a given state.  A node    *)
(* can also raise (NodeRaise): every node calls into pandas, the plotting  *)
(* libraries or the report writer.                                         *)
(***************************************************************************)
node_interpret(st) ==
    IF Loadable(st.file_path)
    THEN { [df |-> << load_data(st.file_path), st.task_id >>,
            summary |-> << "initial_summary", st.task_id >>] }
    ELSE { }

\* faulty variant: the quality stage also hands back a cleaned data frame
node_quality_rewrites_df(st) ==
    IF st.df[1] # "None"
    THEN { [quality_report |-> << "quality_report", st.df[2] >>,
            df |-> << "DataFrame", st.df[2] >>] }
    ELSE { }

node_quality(st) ==
    IF st.df[1] # "None"
    THEN { [quality_report |-> << "quality_report", st.df[2] >>] }
    ELSE { }

node_statistics(st) ==
    IF st.df[1] # "None"
    THEN { [statistics |-> << "statistics", st.df[2] >>] }
    ELSE { }

\* faulty variant: the charts are keyed by the generated file names
node_visualization_keyed_by_file(st) ==
    IF st.df[1] # "None"
    THEN { [visualizations |->
              << IF st.df[2] = 1 THEN "charts" ELSE "charts by file name",
                 st.df[2] >>] }
    ELSE { }

node_visualization(st) ==
    IF st.df[1] # "None"
    THEN { [visualizations |-> << "charts", st.df[2] >>] }
    ELSE { }

\* ForecastingAgent.run_forecast: skipped, success or failed, all returned
node_forecast(st) ==
    IF st.df[1] # "None"
    THEN { [forecast |-> << d, st.df[2] >>] : d \in run_forecast(st.df) }
    ELSE { }

node_report(st) ==
    { [final_report |-> << "report", st.task_id >>] }

NodeFragments(n, st) ==
    CASE n = "interpret"     -> node_interpret(st)
      [] n = "quality"       -> node_quality(st)
      [] n = "statistics"    -> node_statistics(st)
      [] n = "visualization" -> node_visualization(st)
      [] n = "forecast"      -> node_forecast(st)
      [] n = "report"        -> node_report(st)

\* faulty variant: the update replaces the fragments merged before it
Merge_overwrite(st, frag) ==
    [f \in DOMAIN st |->
        IF f \in DOMAIN frag THEN frag[f]
        ELSE IF f \in {"file_path", "task_id"} THEN st[f]
        ELSE InitialState(0, << 0, "" >>)[f]]

\* the graph merges a node's partial update into the state
Merge(st, frag) ==
    [f \in DOMAIN st |-> IF f \in DOMAIN frag THEN frag[f] ELSE st[f]]

(***************************************************************************)
(* Actions of the pipeline                                                 *)
(***************************************************************************)
\* faulty variant: the background task is added before the upload is written
analyze_dataset_starts_anyway(task_id, name, ok, created) ==
    /\ response[task_id] = "none"
    /\ run_status' = [run_status EXCEPT ![task_id] = "Pending"]
    /\ IF ok
       THEN /\ uploads' = uploads \cup { FilePath(task_id, name) }
            /\ response' = [response EXCEPT ![task_id] = "processing"]
       ELSE /\ uploads' = uploads \cup { FilePath(task_id, name) }
            /\ response' = [response EXCEPT ![task_id] = "500"]
    /\ UNCHANGED << wf_result, state, pending, running, stepdone, executed,
                    returned, raised, status_reply >>
    /\ UNCHANGED invokeVars
    /\ UNCHANGED appVars

\* POST /analyze_dataset: a fresh task id; the upload is written and the
\* background task added, or the upload raises and the answer is a 500
\* (open() may already have created the file)
analyze_dataset(task_id, name, ok, created) ==
    /\ response[task_id] = "none"
    /\ IF ok
       THEN /\ uploads' = uploads \cup { FilePath(task_id, name) }
            /\ run_status' = [run_status EXCEPT ![task_id] = "Pending"]
            /\ response' = [response EXCEPT ![task_id] = "processing"]
       ELSE /\ uploads' = IF created
                          THEN uploads \cup { FilePath(task_id, name) }
                          ELSE uploads
            /\ response' = [response EXCEPT ![task_id] = "500"]
            /\ UNCHANGED run_status
    /\ UNCHANGED << wf_result, state, pending, running, stepdone, executed,
                    returned, raised, status_reply >>
    /\ UNCHANGED invokeVars
    /\ UNCHANGED appVars

\* faulty variant: initial_state is one dict every run writes its keys to
run_workflow_shared(task_id) ==
    /\ run_status[task_id] = "Pending"
    /\ \E fp \in uploads :
          /\ fp[1] = task_id
          /\ state' = [q \in RunIds |->
                          IF q = task_id \/ run_status[q] = "Running"
                          THEN InitialState(task_id, fp)
                          ELSE state[q]]
    /\ run_status' = [run_status EXCEPT ![task_id] = "Running"]
    /\ pending' = [pending EXCEPT ![task_id] = {entry_point}]
    /\ UNCHANGED << status_reply, uploads, response, wf_result, running,
                    stepdone, executed, returned, raised >>
    /\ UNCHANGED invokeVars
    /\ UNCHANGED appVars

\* the background task starts: run_workflow builds initial_state and awaits
\* app_workflow.ainvoke, which schedules the entry point
run_workflow(task_id) ==
    /\ run_status[task_id] = "Pending"
    /\ \E fp \in uploads :
          /\ fp[1] = task_id
          /\ state' = [state EXCEPT ![task_id] = InitialState(task_id, fp)]
    /\ run_status' = [run_status EXCEPT ![task_id] = "Running"]
    /\ pending' = [pending EXCEPT ![task_id] = {entry_point}]
    /\ UNCHANGED << status_reply, uploads, response, wf_result, running, stepdone, executed,
                    returned, raised >>
    /\ UNCHANGED invokeVars
    /\ UNCHANGED appVars

\* the graph invokes a scheduled node
NodeStart(task_id, n) ==
    /\ run_status[task_id] = "Running"
    /\ n \in pending[task_id]
    /\ pending' = [pending EXCEPT ![task_id] = @ \ {n}]
    /\ running' = [running EXCEPT ![task_id] = @ \cup {n}]
    /\ executed' = [executed EXCEPT ![task_id] = Append(@, n)]
    /\ UNCHANGED << status_reply, uploads, response, run_status, wf_result, state, stepdone,
                    returned, raised >>
    /\ UNCHANGED invokeVars
    /\ UNCHANGED appVars

\* a node returns its fragment: it is merged; when the step is over the
\* successors are scheduled, and when there are none ainvoke returns the
\* state, run_workflow binds it to `result` and logs "Workflow completed"
NodeReturn(task_id, n, frag) ==
    /\ run_status[task_id] = "Running"
    /\ n \in running[task_id]
    /\ frag \in NodeFragments(n, state[task_id])
    /\ LET st2  == Merge(state[task_id], frag)
           run2 == running[task_id] \ {n}
           done2 == stepdone[task_id] \cup {n}
           more == run2 # {} \/ pending[task_id] # {}
           nxt  == Successors(done2)
       IN  /\ state' = [state EXCEPT ![task_id] = st2]
           /\ running' = [running EXCEPT ![task_id] = run2]
           /\ returned' = [returned EXCEPT ![task_id] = @ \cup {n}]
           /\ IF more
              THEN /\ stepdone' = [stepdone EXCEPT ![task_id] = done2]
                   /\ UNCHANGED << pending, run_status, wf_result >>
              ELSE /\ stepdone' = [stepdone EXCEPT ![task_id] = {}]
                   /\ pending' = [pending EXCEPT ![task_id] = nxt]
                   /\ IF nxt = {}
                      THEN /\ wf_result' = [wf_result EXCEPT ![task_id] = st2]
                           /\ run_status' =
                                 [run_status EXCEPT ![task_id] = "Completed"]
                      ELSE UNCHANGED << run_status, wf_result >>
    /\ UNCHANGED << status_reply, uploads, response, executed, raised >>
    /\ UNCHANGED invokeVars
    /\ UNCHANGED appVars

\* faulty variant: the exception of a node is swallowed and the graph goes on
NodeRaise_swallow(task_id, n) ==
    /\ run_status[task_id] = "Running"
    /\ n \in running[task_id]
    /\ raised' = [raised EXCEPT ![task_id] = n]
    /\ running' = [running EXCEPT ![task_id] = {}]
    /\ pending' = [pending EXCEPT ![task_id] = Successors({n})]
    /\ UNCHANGED << status_reply, uploads, response, run_status, wf_result, state, stepdone,
                    executed, returned >>
    /\ UNCHANGED invokeVars
    /\ UNCHANGED appVars

\* faulty variant: run_workflow has no except branch, the exception leaves
\* the background task and no outcome is recorded for the run
NodeRaise_propagates(task_id, n) ==
    /\ run_status[task_id] = "Running"
    /\ n \in running[task_id]
    /\ raised' = [raised EXCEPT ![task_id] = n]
    /\ running' = [running EXCEPT ![task_id] = {}]
    /\ pending' = [pending EXCEPT ![task_id] = {}]
    /\ stepdone' = [stepdone EXCEPT ![task_id] = {}]
    /\ UNCHANGED << status_reply, uploads, response, run_status, wf_result,
                    state, executed, returned >>
    /\ UNCHANGED invokeVars
    /\ UNCHANGED appVars

\* a node raises: the exception leaves ainvoke, nothing is bound to
\* `result`, and run_workflow's except branch logs "Workflow failed"
NodeRaise(task_id, n) ==
    /\ run_status[task_id] = "Running"
    /\ n \in running[task_id]
    /\ raised' = [raised EXCEPT ![task_id] = n]
    /\ run_status' = [run_status EXCEPT ![task_id] = "Failed"]
    /\ running' = [running EXCEPT ![task_id] = {}]
    /\ pending' = [pending EXCEPT ![task_id] = {}]
    /\ stepdone' = [stepdone EXCEPT ![task_id] = {}]
    /\ UNCHANGED << status_reply, uploads, response, wf_result, state, executed, returned >>
    /\ UNCHANGED invokeVars
    /\ UNCHANGED appVars

\* GET /status/{task_id}: the answer is a literal, whatever the task id
get_status_reply(task_id) == << task_id, "processing" >>

get_status(task_id) ==
    /\ status_reply' = get_status_reply(task_id)
    /\ UNCHANGED << uploads, response, run_status, wf_result, state, pending,
                    running, stepdone, executed, returned, raised >>
    /\ UNCHANGED invokeVars
    /\ UNCHANGED appVars

InitPipeline ==
    /\ status_reply = << 0, "none" >>
    /\ uploads = {}
    /\ response = [r \in RunIds |-> "none"]
    /\ run_status = [r \in RunIds |-> "None"]
    /\ wf_result = [r \in RunIds |-> NoState]
    /\ state = [r \in RunIds |-> NoState]
    /\ pending = [r \in RunIds |-> {}]
    /\ running = [r \in RunIds |-> {}]
    /\ stepdone = [r \in RunIds |-> {}]
    /\ executed = [r \in RunIds |-> << >>]
    /\ returned = [r \in RunIds |-> {}]
    /\ raised = [r \in RunIds |-> "none"]

NextPipeline ==
    \/ \E r \in RunIds, name \in FileNames, ok \in BOOLEAN, created \in BOOLEAN :
          analyze_dataset(r, name, ok, created)
    \/ \E r \in RunIds : run_workflow(r)
    \/ \E r \in RunIds, n \in Nodes : NodeStart(r, n)
    \/ \E r \in RunIds, n \in Nodes :
          \E frag \in NodeFragments(n, state[r]) : NodeReturn(r, n, frag)
    \/ \E r \in RunIds, n \in Nodes : NodeRaise(r, n)
    \/ \E r \in RunIds : get_status(r)

(***************************************************************************)
(* Concurrent callers.  Every endpoint, every background run and           *)
(* invoke_with_fallback itself are coroutines of one event loop: a         *)
(* coroutine runs alone from one await to the next.  A task is one call    *)
(* of invoke_with_fallback; between its awaits it is at the ainvoke of     *)
(* its innermost frame.                                                    *)
(***************************************************************************)
MaxTasks == 2

TaskIds == 1..MaxTasks

IdleTask == [pc |-> "idle", provider |-> "<none>", model_index |-> 0]

\* the positions the callers pass: the function's defaults, and the agents'
\* provider="groq"
TaskStarts == { << "ollama", 0 >>, << "groq", 0 >> }

\* where a frame's outcome leaves the task: at the next await, or returned
TaskAt(f) ==
    IF f.pc = "inflight"
    THEN [pc |-> "inflight", provider |-> f.provider,
          model_index |-> f.model_index]
    ELSE IdleTask

\* a coroutine awaits invoke_with_fallback(l, msgs, p, i): lines 137-147
TaskCalls(t, p, i, msgs, l) ==
    /\ tasks[t].pc = "idle"
    /\ l \in StartClients(p, i)
    /\ tasks' = [tasks EXCEPT
                    ![t] = TaskAt(InvokeFrame(l, msgs, p, i, << >>, << >>))]
    /\ UNCHANGED << last_query, api_keys, space_pc, space_prompt, space_calls,
                    space_errors, space_reply >>
    /\ UNCHANGED invokeVars
    /\ UNCHANGED pipeVars

\* faulty variant: the loop may switch tasks between the two assignments
TaskSucceeds_torn(t) ==
    /\ \/ /\ tasks[t].pc = "inflight"
          /\ current_provider' = tasks[t].provider
          /\ UNCHANGED current_model_index
          /\ tasks' = [tasks EXCEPT ![t].pc = "half"]
       \/ /\ tasks[t].pc = "half"
          /\ current_model_index' = tasks[t].model_index
          /\ UNCHANGED current_provider
          /\ tasks' = [tasks EXCEPT ![t] = IdleTask]
    /\ UNCHANGED << last_query, api_keys, space_pc, space_prompt, space_calls,
                    space_errors, space_reply >>
    /\ UNCHANGED << models, construct, pc, start, llm, provider, model_index,
                    messages, attempted, failed, result, caller, op_result >>
    /\ UNCHANGED pipeVars

\* the task's request is answered: lines 147-150, no await between them
TaskSucceeds(t) ==
    /\ tasks[t].pc = "inflight"
    /\ current_provider' = tasks[t].provider
    /\ current_model_index' = tasks[t].model_index
    /\ tasks' = [tasks EXCEPT ![t] = IdleTask]
    /\ UNCHANGED << last_query, api_keys, space_pc, space_prompt, space_calls,
                    space_errors, space_reply >>
    /\ UNCHANGED << models, construct, pc, start, llm, provider, model_index,
                    messages, attempted, failed, result, caller, op_result >>
    /\ UNCHANGED pipeVars

\* the task's request raises: lines 152-189, up to the next await
TaskFails(t, msgs) ==
    /\ tasks[t].pc = "inflight"
    /\ tasks' = [tasks EXCEPT
                    ![t] = TaskAt(InvokeExcept(msgs, tasks[t].provider,
                                               tasks[t].model_index,
                                               << >>, << >>))]
    /\ UNCHANGED << last_query, api_keys, space_pc, space_prompt, space_calls,
                    space_errors, space_reply >>
    /\ UNCHANGED invokeVars
    /\ UNCHANGED pipeVars

NextConcurrent ==
    \/ \E t \in TaskIds, pos \in TaskStarts, msgs \in MessageLists :
          \E l \in StartClients(pos[1], pos[2]) :
              TaskCalls(t, pos[1], pos[2], msgs, l)
    \/ \E t \in TaskIds : TaskSucceeds(t)
    \/ \E t \in TaskIds, msgs \in MessageLists : TaskFails(t, msgs)
    \/ reset_model_index

(***************************************************************************)
(* backend/main.py: the query endpoints, and the Query Data page of        *)
(* frontend/app.py that posts to them.  A string is the sequence of its    *)
(* parts, so that startswith is the prefix test it is in Python.  A        *)
(* request body is [query, dataset_id, context_id], a field the JSON does  *)
(* not carry being Absent.  The handlers are modelled up to their await    *)
(* of the agent: "agent result" stands for whatever the agent returns.     *)
(***************************************************************************)
\* str(uuid.uuid4()): strings of one length, none a prefix of another
Uuid(r) == << "u", r >>

\* st.session_state.get("task_id", "demo")
Demo == << "demo" >>

\* Python's None in an id field
NoneId == << "None" >>

Absent == << "absent" >>

\* the name of the file in UPLOAD_DIR: f"{task_id}_{file.filename}"
DiskName(fp) == Uuid(fp[1]) \o << "_", fp[2] >>

\* str.startswith
startswith(f, prefix) ==
    /\ Len(prefix) <= Len(f)
    /\ SubSeq(f, 1, Len(prefix)) = prefix

NoFile == << 0, "None" >>

\* faulty variant: only a file named exactly task_id is found
get_file_path_whole_name(task_id) ==
    LET found == { fp \in uploads : DiskName(fp) = task_id }
    IN  IF found = {} THEN { NoFile } ELSE found

\* get_file_path: the first entry of os.listdir(UPLOAD_DIR), whose order is
\* arbitrary, that starts with task_id; None when there is none
get_file_path(task_id) ==
    LET found == { fp \in uploads : startswith(DiskName(fp), task_id) }
    IN  IF found = {} THEN { NoFile } ELSE found

\* the words a question is made of
Queries == { << "show", "revenue" >>, << "why", "drop" >> }

\* the Query Data page: which endpoint a question goes to
Route(query) ==
    IF \E k \in 1..Len(query) :
          query[k] \in {"show", "list", "count", "sum", "average"}
    THEN "sql_query"
    ELSE "semantic_query"

\* the ids a client may put in a request: the task ids, the beginning of
\* one and the empty string
QueryIds == { Uuid(r) : r \in RunIds } \cup { << "u" >>, << >> }

\* the bodies a client of the API sends: an id in one of the two fields
\* (the handlers pass the question on unread)
BodiesWith(ids) ==
    [query : { << "why", "drop" >> }, dataset_id : ids,
     context_id : { Absent }]
    \cup [query : { << "why", "drop" >> }, dataset_id : { Absent },
          context_id : ids]

\* a client that asks about a task by its id, in the field the endpoint
\* reads
TaskBodies == BodiesWith({ Uuid(r) : r \in RunIds })

\* a client that sends any id
Bodies == BodiesWith(QueryIds)

\* the Query Data page's payload: {"query": query, "dataset_id": task_id}
FrontendBody(query, sid) ==
    [query |-> query, dataset_id |-> sid, context_id |-> Absent]

\* the task ids a browser session can hold: the page stores the task id of
\* an upload that was answered 200, and falls back to "demo"
SessionIds ==
    { Uuid(r) : r \in { q \in RunIds : response[q] = "processing" } }
        \cup { Demo }

\* class QueryRequest: context_id is Optional and defaults to None
QueryRequest(body) ==
    [query |-> body.query,
     context_id |-> IF body.context_id = Absent THEN NoneId
                    ELSE body.context_id]

\* class SQLRequest: dataset_id is required, a body without it is a 422
SQLRequest(body) ==
    [valid |-> body.dataset_id # Absent,
     query |-> body.query,
     dataset_id |-> body.dataset_id]

\* what the handler answers once get_file_path has returned
QueryReply(fp) ==
    IF fp = NoFile THEN "Dataset not found."
    ELSE IF ~ Loadable(fp) THEN "500"
    ELSE "agent result"

NoQuery ==
    [client |-> "none", endpoint |-> "none", id |-> NoneId, file |-> NoFile,
     reply |-> "none"]

\* POST /sql_query
sql_query(body, client) ==
    /\ LET request == SQLRequest(body)
       IN  IF ~ request.valid
           THEN last_query' = [client |-> client, endpoint |-> "sql_query",
                               id |-> Absent, file |-> NoFile,
                               reply |-> "422"]
           ELSE \E fp \in get_file_path(request.dataset_id) :
                   last_query' = [client |-> client,
                                  endpoint |-> "sql_query",
                                  id |-> request.dataset_id, file |-> fp,
                                  reply |-> QueryReply(fp)]
    /\ UNCHANGED << tasks, api_keys, space_pc, space_prompt, space_calls,
                    space_errors, space_reply >>
    /\ UNCHANGED invokeVars
    /\ UNCHANGED pipeVars

\* POST /semantic_query
semantic_query(body, client) ==
    /\ LET request == QueryRequest(body)
       IN  IF request.context_id \in { NoneId, << >> }
           THEN last_query' = [client |-> client,
                               endpoint |-> "semantic_query",
                               id |-> request.context_id, file |-> NoFile,
                               reply |-> "Context ID (Task ID) is required."]
           ELSE \E fp \in get_file_path(request.context_id) :
                   last_query' = [client |-> client,
                                  endpoint |-> "semantic_query",
                                  id |-> request.context_id, file |-> fp,
                                  reply |-> QueryReply(fp)]
    /\ UNCHANGED << tasks, api_keys, space_pc, space_prompt, space_calls,
                    space_errors, space_reply >>
    /\ UNCHANGED invokeVars
    /\ UNCHANGED pipeVars

\* the Query Data page: Submit
SubmitQuery(query, sid) ==
    /\ sid \in SessionIds
    /\ IF Route(query) = "sql_query"
       THEN sql_query(FrontendBody(query, sid), "frontend")
       ELSE semantic_query(FrontendBody(query, sid), "frontend")

(***************************************************************************)
(* huggingface_space/app.py: get_llm_response and the three call_*         *)
(* functions.  The calls block, so the function runs from its entry to a   *)
(* provider's request, and from a provider's answer to the next request    *)
(* or to its return.  An exception is the sequence of the parts of its     *)
(* message.                                                                *)
(***************************************************************************)
\* the order of the three try blocks
SpaceProviders == << "Groq", "OpenRouter", "HuggingFace" >>

SpaceNames == { SpaceProviders[k] : k \in 1..Len(SpaceProviders) }

Prompts == 1..MaxMessages

\* Exception(f"No {p} Key")
NoKey(p) == << "No", p, "Key" >>

\* what a request can raise: the provider's error answer, or any exception
\* of the client library
ApiErrors == { << "Error" >>, << "Timeout" >> }

\* errors.append(f"{p}: {str(e)}")
ErrorLine(p, e) == << p, ":" >> \o e

NoReply == [by |-> "none", prompt |-> 0, errors |-> << >>]

\* the string returned after the third except block
AllFailed(errors) == [by |-> "notice", prompt |-> 0, errors |-> errors]

\* get_llm_response from its k-th try block on: call_* raises at once when
\* its key is missing, and sends its request otherwise
RECURSIVE SpaceTry(_, _, _)
SpaceTry(k, calls, errors) ==
    IF k > Len(SpaceProviders)
    THEN [pc |-> "returned", calls |-> calls, errors |-> errors,
          reply |-> AllFailed(errors)]
    ELSE LET p == SpaceProviders[k]
         IN  IF p \notin api_keys
             THEN SpaceTry(k + 1, Append(calls, p),
                           Append(errors, ErrorLine(p, NoKey(p))))
             ELSE [pc |-> p, calls |-> Append(calls, p), errors |-> errors,
                   reply |-> NoReply]

SpaceResume(f) ==
    /\ space_pc' = f.pc
    /\ space_calls' = f.calls
    /\ space_errors' = f.errors
    /\ space_reply' = f.reply

\* an agent function calls get_llm_response(prompt)
get_llm_response(prompt) ==
    /\ space_pc = "idle"
    /\ space_prompt' = prompt
    /\ SpaceResume(SpaceTry(1, << >>, << >>))
    /\ UNCHANGED << last_query, tasks, api_keys >>
    /\ UNCHANGED invokeVars
    /\ UNCHANGED pipeVars

\* the provider answers: the try block returns its text
SpaceCallReturns ==
    /\ space_pc \in SpaceNames
    /\ space_pc' = "returned"
    /\ space_reply' = [by |-> space_pc, prompt |-> space_prompt,
                       errors |-> << >>]
    /\ UNCHANGED << last_query, tasks, api_keys, space_prompt, space_calls,
                    space_errors >>
    /\ UNCHANGED invokeVars
    /\ UNCHANGED pipeVars

\* faulty variant: the first failed request ends the function
SpaceCallRaises_gives_up(e) ==
    /\ space_pc \in SpaceNames
    /\ SpaceResume([pc |-> "returned", calls |-> space_calls,
                    errors |-> Append(space_errors, ErrorLine(space_pc, e)),
                    reply |-> AllFailed(Append(space_errors,
                                               ErrorLine(space_pc, e)))])
    /\ UNCHANGED << last_query, tasks, api_keys, space_prompt >>
    /\ UNCHANGED invokeVars
    /\ UNCHANGED pipeVars

\* the provider's request raises: the except block, then the next try
SpaceCallRaises(e) ==
    /\ space_pc \in SpaceNames
    /\ LET k == CHOOSE j \in 1..Len(SpaceProviders) :
                    SpaceProviders[j] = space_pc
       IN  SpaceResume(SpaceTry(k + 1, space_calls,
                                Append(space_errors,
                                       ErrorLine(space_pc, e))))
    /\ UNCHANGED << last_query, tasks, api_keys, space_prompt >>
    /\ UNCHANGED invokeVars
    /\ UNCHANGED pipeVars

\* the agent function takes the string
SpaceCallerTakes ==
    /\ space_pc = "returned"
    /\ space_pc' = "idle"
    /\ space_prompt' = 0
    /\ space_calls' = << >>
    /\ space_errors' = << >>
    /\ space_reply' = NoReply
    /\ UNCHANGED << last_query, tasks, api_keys >>
    /\ UNCHANGED invokeVars
    /\ UNCHANGED pipeVars

NextSpace ==
    \/ \E prompt \in Prompts : get_llm_response(prompt)
    \/ SpaceCallReturns
    \/ \E e \in ApiErrors : SpaceCallRaises(e)
    \/ SpaceCallerTakes

\* the single-file app at rest
InitSpace ==
    /\ space_pc = "idle"
    /\ space_prompt = 0
    /\ space_calls = << >>
    /\ space_errors = << >>
    /\ space_reply = NoReply

InitApps ==
    /\ tasks = [t \in TaskIds |-> IdleTask]
    /\ last_query = NoQuery
    /\ api_keys = SpaceNames
    /\ InitSpace

vars == << invokeVars, pipeVars, appVars >>

Init == InitInvoke /\ InitPipeline /\ InitApps

Next == NextInvoke \/ NextAgents \/ NextPipeline

\* the whole backend
Spec == Init /\ [][Next]_vars

\* the cascade alone, no run triggered
SpecInvoke == Init /\ [][NextInvoke]_vars

\* the runs alone: no text generation is requested, every provider's client
\* can be built
InitAllKeys == Init /\ construct = [p \in Providers |-> "client"]

SpecPipeline == InitAllKeys /\ [][NextPipeline]_vars

\* the agents' operations alone
SpecAgents == Init /\ [][NextAgents]_vars

\* the agents' operations in a process whose model lists may be empty;
\* every provider's client can be built
InitConfig ==
    /\ models \in Configurations
    /\ InitCall
    /\ construct = [p \in Providers |-> "client"]
    /\ InitPipeline
    /\ InitApps

SpecConfig == InitConfig /\ [][NextAgents]_vars

\* the single-file app, in a process with any of the three keys set
InitAnyKeys ==
    /\ InitInvoke
    /\ construct = [p \in Providers |-> "client"]
    /\ InitPipeline
    /\ tasks = [t \in TaskIds |-> IdleTask]
    /\ last_query = NoQuery
    /\ api_keys \in SUBSET SpaceNames
    /\ InitSpace

SpecSpace == InitAnyKeys /\ [][NextSpace]_vars

\* the cascade under concurrent callers
SpecConcurrent == InitAllKeys /\ [][NextConcurrent]_vars

FairSpecInvoke ==
    SpecInvoke /\ WF_vars(ProviderSucceeds \/ ProviderFails)

\* the event loop runs every background task it was given, and a client
\* that polls is answered
FairSpecPipeline ==
    /\ SpecPipeline
    /\ WF_vars(\E r \in RunIds : run_workflow(r))
    /\ WF_vars(\E r \in RunIds, n \in Nodes : NodeStart(r, n))
    /\ WF_vars(\E r \in RunIds, n \in Nodes :
                 (\E frag \in NodeFragments(n, state[r]) : NodeReturn(r, n, frag))
                 \/ NodeRaise(r, n))
    /\ \A r \in RunIds : WF_vars(get_status(r))

\* the runs of one kind of upload, nobody polling: the steps of
\* run_workflow and of the graph, under the same scheduling
NextRuns ==
    \/ \E r \in RunIds, ok \in BOOLEAN :
          analyze_dataset(r, "sales.csv", ok, FALSE)
    \/ \E r \in RunIds : run_workflow(r)
    \/ \E r \in RunIds, n \in Nodes : NodeStart(r, n)
    \/ \E r \in RunIds, n \in Nodes :
          \E frag \in NodeFragments(n, state[r]) : NodeReturn(r, n, frag)
    \/ \E r \in RunIds, n \in Nodes : NodeRaise(r, n)

SpecRuns == InitAllKeys /\ [][NextRuns]_vars

FairSpecRuns ==
    /\ SpecRuns
    /\ WF_vars(\E r \in RunIds : run_workflow(r))
    /\ WF_vars(\E r \in RunIds, n \in Nodes : NodeStart(r, n))
    /\ WF_vars(\E r \in RunIds, n \in Nodes :
                 (\E frag \in NodeFragments(n, state[r]) : NodeReturn(r, n, frag))
                 \/ NodeRaise(r, n))

\* the runs and the queries about their datasets, from the page and from
\* other clients of the API
NextQueries ==
    \/ NextRuns
    \/ \E body \in TaskBodies :
          body.dataset_id # Absent /\ sql_query(body, "api")
    \/ \E body \in TaskBodies :
          body.context_id # Absent /\ semantic_query(body, "api")
    \/ \E query \in Queries, sid \in SessionIds : SubmitQuery(query, sid)

SpecQueries == InitAllKeys /\ [][NextQueries]_vars

\* the runs and the queries of clients that send any id
NextAnyQueries ==
    \/ NextRuns
    \/ \E body \in Bodies : sql_query(body, "api")
    \/ \E body \in Bodies : semantic_query(body, "api")

SpecAnyQueries == InitAllKeys /\ [][NextAnyQueries]_vars

(***************************************************************************)
(* The escalation ladder the properties refer to: the model lists          *)
(* concatenated in the provider order of the cascade, safe mode last.      *)
(***************************************************************************)
PositionsOf(p) == [k \in 1..Len(ShippedModels[p]) |-> << p, k - 1 >>]

Ladder ==
    PositionsOf("ollama") \o PositionsOf("groq") \o
    PositionsOf("openrouter") \o PositionsOf("huggingface")

\* place of a position in the ladder; safe mode comes right after the last
LadderIndex(pos) ==
    IF pos = SafeMode THEN Len(Ladder) + 1
    ELSE CHOOSE k \in 1..Len(Ladder) : Ladder[k] = pos

\* n: the number of ladder entries from pos to the end of the ladder
EntriesFrom(pos) == Len(Ladder) - LadderIndex(pos) + 1

\* the ladder entries number a..b, in order
LadderSlice(a, b) == [k \in 1..(b - a + 1) |-> Ladder[a + k - 1]]

SafeModeText ==
    << "**System Notice:** All AI providers are currently at capacity. Please try again in a few minutes.", 0 >>

\* the call went down the cascade: it was not handed a MockChatLLM
Cascaded == pc # "idle" /\ attempted # << >> /\ attempted[1] # SafeMode

(***************************************************************************)
(* C1: one call of invoke_with_fallback makes at most n+1 attempts, n the  *)
(* number of ladder entries from its start position to the end of the      *)
(* ladder and +1 the safe-mode step, and it terminates: a call with a      *)
(* request in flight ends (returns or raises), whatever fails.             *)
(***************************************************************************)
C1_AttemptBound ==
    pc # "idle" => Len(attempted) <= EntriesFrom(start) + 1

C1_BoundedAndTerminates ==
    /\ [] C1_AttemptBound
    /\ (pc = "inflight") ~> (pc \in {"done", "raised"})

\* a call that failed at every entry of the whole ladder and made 19 attempts
C1_Witness ==
    /\ pc = "done"
    /\ start = << "ollama", 0 >>
    /\ Len(attempted) = Len(Ladder) + 1
    /\ Len(failed) = Len(Ladder)

(***************************************************************************)
(* C2: within one call the attempted positions are strictly increasing in  *)
(* ladder order: no position is attempted twice, a failed position is not  *)
(* retried and the cascade never moves back.                               *)
(***************************************************************************)
C2_StrictlyIncreasing ==
    \A j, k \in 1..Len(attempted) :
        j < k => LadderIndex(attempted[j]) < LadderIndex(attempted[k])

\* a call that crossed from groq into openrouter after failures
C2_Witness ==
    /\ pc = "inflight"
    /\ start = << "groq", 5 >>
    /\ provider = "openrouter"
    /\ model_index = 1
    /\ Len(failed) = 3

(***************************************************************************)
(* C3: when every ladder entry from the start position through the last    *)
(* one has failed, the call returns exactly the fixed safe-mode text,      *)
(* whatever the messages, after n real attempts and the one safe-mode step.*)
(***************************************************************************)
C3_AllFailGivesSafeMode ==
    (pc = "done" /\ Cascaded /\ Len(failed) = EntriesFrom(start)) =>
        /\ result = SafeModeText
        /\ Len(attempted) = EntriesFrom(start) + 1
        /\ SubSeq(attempted, 1, EntriesFrom(start)) = failed
        /\ attempted[Len(attempted)] = SafeMode

\* two entries left, both fail, three attempts, second message list
C3_Witness ==
    /\ pc = "done"
    /\ start = << "huggingface", 1 >>
    /\ messages = 2
    /\ failed = << << "huggingface", 1 >>, << "huggingface", 2 >> >>
    /\ Len(attempted) = 3
    /\ result = SafeModeText

(***************************************************************************)
(* C4: when the first k-1 entries from the start position fail and the     *)
(* k-th succeeds, the call returns the k-th entry's response after exactly *)
(* k attempts: the attempts are the k consecutive ladder entries from the  *)
(* start, and nothing after the k-th is attempted.                         *)
(***************************************************************************)
C4_FirstSuccessReturned ==
    (pc = "done" /\ Cascaded /\ attempted[Len(attempted)] # SafeMode) =>
        LET k == Len(attempted)
            a == LadderIndex(start)
        IN  /\ attempted = LadderSlice(a, a + k - 1)
            /\ failed = LadderSlice(a, a + k - 2)
            /\ result = ClientReply(attempted[k][1], attempted[k][2], messages)

\* ollama fails, groq's first two models fail, groq's third answers
C4_Witness ==
    /\ pc = "done"
    /\ start = << "ollama", 0 >>
    /\ Len(attempted) = 4
    /\ Len(failed) = 3
    /\ result = << GROQ_MODELS[3], messages >>

(***************************************************************************)
(* C5: no provider-level failure escapes invoke_with_fallback: whatever    *)
(* fails while a provider is called or while the client of the next entry  *)
(* is obtained, the call returns a response and never raises.              *)
(***************************************************************************)
C5_NeverRaises == pc # "raised"

(***************************************************************************)
(* C6: the cascade advances in ladder order without gaps: each attempt     *)
(* after the first is at the ladder entry right after the previous one, so *)
(* the remaining models of a provider come before the first model of the   *)
(* next provider and safe mode directly follows the last model of the last *)
(* provider only.                                                          *)
(***************************************************************************)
C6_LadderOrder ==
    \A k \in 1..(Len(attempted) - 1) :
        /\ attempted[k] # SafeMode
        /\ LadderIndex(attempted[k + 1]) = LadderIndex(attempted[k]) + 1

\* the cascade reached safe mode from the last huggingface model
C6_Witness ==
    /\ pc = "done"
    /\ start = << "openrouter", 6 >>
    /\ attempted = << << "openrouter", 6 >>, << "huggingface", 0 >>,
                      << "huggingface", 1 >>, << "huggingface", 2 >>,
                      SafeMode >>

(***************************************************************************)
(* C7 as stated: the local model is the fallback behind the cloud          *)
(* providers: a call that starts at groq and ends in safe mode has         *)
(* attempted the local (ollama) model, and no call attempts the local      *)
(* model before a groq model.                                              *)
(***************************************************************************)
AttemptedProviders == { attempted[k][1] : k \in 1..Len(attempted) }

C7_LocalAfterCloud ==
    /\ (pc = "done" /\ Cascaded /\ start[1] = "groq"
          /\ attempted[Len(attempted)] = SafeMode)
           => "ollama" \in AttemptedProviders
    /\ \A j, k \in 1..Len(attempted) :
          (attempted[j][1] = "ollama" /\ attempted[k][1] = "groq") => k < j

(***************************************************************************)
(* C7 amended: the precedence is local model (ollama), groq, openrouter,   *)
(* huggingface, safe mode.  The providers of the attempts of a call never  *)
(* go back in that order, and a call that does not start at ollama never   *)
(* attempts the local model: from groq it reaches safe mode through        *)
(* openrouter and huggingface only.                                        *)
(***************************************************************************)
ProviderRank(p) ==
    CASE p = "ollama"      -> 1
      [] p = "groq"        -> 2
      [] p = "openrouter"  -> 3
      [] p = "huggingface" -> 4
      [] OTHER             -> 5

C7_LocalFirst ==
    /\ \A j, k \in 1..Len(attempted) :
          j < k => ProviderRank(attempted[j][1]) <= ProviderRank(attempted[k][1])
    /\ (pc # "idle" /\ start[1] # "ollama") => "ollama" \notin AttemptedProviders

\* from groq, every cloud model failed and the call ended in safe mode
C7_Witness ==
    /\ pc = "done"
    /\ start = << "groq", 0 >>
    /\ Len(failed) = Len(GROQ_MODELS) + Len(OPENROUTER_MODELS)
                       + Len(HUGGINGFACE_MODELS)
    /\ result = SafeModeText
    /\ "ollama" \notin AttemptedProviders

(***************************************************************************)
(* The stage order the properties refer to, and the fields each stage      *)
(* contributes to the shared state.                                        *)
(***************************************************************************)
StageOrder == << "interpret", "quality", "statistics", "visualization",
                 "forecast", "report" >>

StageNumber(n) == CHOOSE k \in 1..Len(StageOrder) : StageOrder[k] = n

StageFields(n) ==
    CASE n = "interpret"     -> {"df", "summary"}
      [] n = "quality"       -> {"quality_report"}
      [] n = "statistics"    -> {"statistics"}
      [] n = "visualization" -> {"visualizations"}
      [] n = "forecast"      -> {"forecast"}
      [] n = "report"        -> {"final_report"}

\* the fields of st that hold a fragment
Populated(st) ==
    { f \in UNION { StageFields(n) : n \in Nodes } :
         st[f] # NoState[f] }

\* the fields of the stages before stage number k
FieldsBefore(k) == UNION { StageFields(StageOrder[j]) : j \in 1..(k - 1) }

(***************************************************************************)
(* C8: when stage k of a run fails fatally, the shared state handed back   *)
(* to the caller of the run holds exactly the merged fragments of stages   *)
(* 1..k-1 and nothing of stage k or later: the partial state is kept.      *)
(***************************************************************************)
C8_PartialStateReturned ==
    \A r \in RunIds :
        run_status[r] = "Failed" =>
            /\ wf_result[r] # NoState
            /\ Populated(wf_result[r]) = FieldsBefore(StageNumber(raised[r]))

(***************************************************************************)
(* C9: when stage k of the six-stage pipeline fails fatally the run is     *)
(* Failed and no stage after k is executed in that run: the failed stage   *)
(* stays the last one invoked and nothing is scheduled or running.         *)
(***************************************************************************)
C9_FatalStopsRun ==
    \A r \in RunIds :
        raised[r] # "none" =>
            /\ run_status[r] = "Failed"
            /\ executed[r] = SubSeq(StageOrder, 1, StageNumber(raised[r]))
            /\ pending[r] = {}
            /\ running[r] = {}
            /\ \A n \in Nodes : ~ ENABLED NodeStart(r, n)

\* stage 4 failed after stages 1-3 returned
C9_Witness ==
    \E r \in RunIds :
        /\ raised[r] = "visualization"
        /\ run_status[r] = "Failed"
        /\ returned[r] = {"interpret", "quality", "statistics"}
        /\ Len(executed[r]) = 4

(***************************************************************************)
(* C10: within a run the stages execute one at a time in the fixed order:  *)
(* the stages invoked so far are a prefix of the stage order (each at most *)
(* once), at most one stage is running, it is the last one invoked, and    *)
(* every stage invoked before it has returned.                             *)
(***************************************************************************)
C10_Sequential ==
    \A r \in RunIds :
        LET j == Len(executed[r])
        IN  /\ j <= Len(StageOrder)
            /\ executed[r] = SubSeq(StageOrder, 1, j)
            /\ Cardinality(running[r]) <= 1
            /\ \A n \in running[r] : n = executed[r][j]
            /\ \A k \in 1..(j - 1) : executed[r][k] \in returned[r]
            /\ Cardinality(pending[r]) + Cardinality(running[r]) <= 1

\* forecast is running and the four stages before it have returned, while
\* another run is at a different stage
C10_Witness ==
    \E r, q \in RunIds :
        /\ r # q
        /\ running[r] = {"forecast"}
        /\ returned[r] = {"interpret", "quality", "statistics", "visualization"}
        /\ running[q] = {"quality"}

(***************************************************************************)
(* The fields of the shared state a node reads: state["..."] in its body.  *)
(***************************************************************************)
Reads(n) ==
    CASE n = "interpret"     -> {"file_path"}
      [] n = "quality"       -> {"df"}
      [] n = "statistics"    -> {"df"}
      [] n = "visualization" -> {"df"}
      [] n = "forecast"      -> {"df"}
      [] n = "report"        -> {"summary", "quality_report", "statistics",
                                 "visualizations", "forecast", "task_id"}

\* the fields a stage contributes
FragmentFields == UNION { StageFields(n) : n \in Nodes }

(***************************************************************************)
(* C11: the merges of a run are linearized: while stage N+1 is running,    *)
(* the shared state holds the merged fragment of every stage 1..N, and     *)
(* every fragment field the stage reads (df for stages 2-5; summary,       *)
(* quality_report, statistics, visualizations and forecast for report) was *)
(* written by an earlier stage of the same run.                            *)
(***************************************************************************)
C11_MergesLinearized ==
    \A r \in RunIds : \A n \in running[r] :
        /\ FieldsBefore(StageNumber(n)) \subseteq Populated(state[r])
        /\ \A f \in Reads(n) \cap FragmentFields :
              /\ f \in FieldsBefore(StageNumber(n))
              /\ state[r][f][2] = r

\* report is running on the five merged fragments of its run while another
\* run has merged only the first one
C11_Witness ==
    \E r, q \in RunIds :
        /\ r # q
        /\ running[r] = {"report"}
        /\ Populated(state[r]) = FieldsBefore(StageNumber("report"))
        /\ running[q] = {"quality"}
        /\ Populated(state[q]) = {"df", "summary"}

(***************************************************************************)
(* C12: a forecast stage with no applicable input (no date/numeric pair)   *)
(* returns the skipped result with a reason.  The run is not failed by it, *)
(* report is the next stage and still executes, the forecast fragment      *)
(* holds the status and the reason and no forecast result, and the reason  *)
(* can be read from the shared state.                                      *)
(***************************************************************************)
ForecastOf(st) == st.forecast[1]

C12_SkippedForecast ==
    \A r \in RunIds :
        "forecast" \in returned[r] =>
            /\ ~ detect_time_series(state[r].df) =>
                    Get(ForecastOf(state[r]), "status") = "skipped"
            /\ Get(ForecastOf(state[r]), "status") = "skipped" =>
                  /\ raised[r] \in {"none", "report"}
                  /\ run_status[r] \in {"Running", "Completed", "Failed"}
                  /\ "report" \in pending[r] \cup running[r] \cup returned[r]
                                    \cup {raised[r]}
                  /\ "report" \in pending[r] => ENABLED NodeStart(r, "report")
                  /\ Keys(ForecastOf(state[r])) = {"status", "reason"}
                  /\ Get(ForecastOf(state[r]), "reason") =
                        "No date/numeric pair found"
                  /\ run_status[r] = "Completed" =>
                        Get(ForecastOf(wf_result[r]), "reason") =
                           "No date/numeric pair found"

\* a run on a table without a date column completed: forecast was skipped
\* and report returned after it
C12_Witness ==
    \E r \in RunIds :
        /\ run_status[r] = "Completed"
        /\ ~ detect_time_series(state[r].df)
        /\ Get(ForecastOf(wf_result[r]), "status") = "skipped"
        /\ executed[r] = StageOrder
        /\ "report" \in returned[r]

(***************************************************************************)
(* C14: a request to analyze_dataset whose upload succeeds starts exactly  *)
(* one run, under a task id no earlier request was given, and is answered  *)
(* "processing" before any stage of the run has executed; a request whose  *)
(* upload fails starts no run.  A run is started once: its status only     *)
(* moves None -> Pending -> Running -> Completed or Failed.                *)
(***************************************************************************)
StatusMoves ==
    { << "None", "Pending" >>, << "Pending", "Running" >>,
      << "Running", "Completed" >>, << "Running", "Failed" >> }

C14_TriggerStep ==
    \A r \in RunIds :
        /\ (response[r] = "none" /\ response'[r] = "processing") =>
               /\ run_status[r] = "None"
               /\ run_status'[r] = "Pending"
               /\ executed'[r] = << >>
               /\ state'[r] = NoState
               /\ \E fp \in uploads' : fp[1] = r
        /\ (response[r] = "none" /\ response'[r] = "500") =>
               run_status'[r] = "None"
        /\ response[r] # "none" => response'[r] = response[r]
        /\ run_status'[r] # run_status[r] =>
               << run_status[r], run_status'[r] >> \in StatusMoves
        /\ run_status'[r] # "None" => response'[r] = "processing"

C14_OneRunPerUpload == [][C14_TriggerStep]_vars

\* one request was answered "processing" and its run is under way, another
\* request's upload failed and it has no run
C14_Witness ==
    \E r, q \in RunIds :
        /\ response[r] = "processing"
        /\ run_status[r] = "Running"
        /\ executed[r] # << >>
        /\ response[q] = "500"
        /\ run_status[q] = "None"

(***************************************************************************)
(* C15: once a run has terminated, get_status eventually reports its       *)
(* terminal tag (Completed or Failed) for that run: a finished run is not  *)
(* reported as in progress for ever.                                       *)
(***************************************************************************)
C15_StatusExposed ==
    \A r \in RunIds :
        (run_status[r] \in {"Completed", "Failed"})
            ~> (status_reply = << r, run_status[r] >>)

(***************************************************************************)
(* C16: runs are isolated under every interleaving, although they share    *)
(* the module-level agents.  Each run has its own state and its own task   *)
(* id: the state of run r names r, its file is the upload of r and every   *)
(* fragment in it was computed by r from the data of r; a step changes the *)
(* state of at most one run, and only of a run that took the step.         *)
(***************************************************************************)
OwnState(r, st) ==
    /\ st.task_id \in {0, r}
    /\ st.file_path[1] \in {0, r}
    /\ \A f \in Populated(st) : st[f][2] = r

C16_OwnStates ==
    \A r \in RunIds : OwnState(r, state[r]) /\ OwnState(r, wf_result[r])

C16_IsolatedStep ==
    \A r \in RunIds :
        state'[r] # state[r] =>
            /\ \A q \in RunIds \ {r} :
                  state'[q] = state[q] /\ wf_result'[q] = wf_result[q]
            /\ run_status[r] \in {"Pending", "Running"}
            /\ running'[r] # running[r] \/ run_status'[r] # run_status[r]

C16_RunsIsolated == [] C16_OwnStates /\ [][C16_IsolatedStep]_vars

\* two runs on different files are in the middle of different stages, each
\* holding fragments of its own
C16_Witness ==
    \E r, q \in RunIds :
        /\ r # q
        /\ running[r] = {"forecast"}
        /\ running[q] = {"statistics"}
        /\ state[r].df = << "TimeSeriesFrame", r >>
        /\ state[q].df = << "DataFrame", q >>
        /\ state[q].quality_report[2] = q

(***************************************************************************)
(* C18: on success invoke_with_fallback hands back the text of the entry   *)
(* that answered and records its position: right after the step in which   *)
(* a provider's answer ends the call, (_current_provider,                  *)
(* _current_model_index) is the (provider, model_index) of the attempt     *)
(* that succeeded - the last one attempted - and neither a failed position *)
(* nor, after a fallback, the start position.                              *)
(***************************************************************************)
RecordedPosition == << current_provider, current_model_index >>

C18_SuccessStep ==
    (pc = "inflight" /\ pc' = "done" /\ result' # SafeModeText) =>
        /\ RecordedPosition' = attempted[Len(attempted)]
        /\ result' = ClientReply(current_provider', current_model_index',
                                 messages)
        /\ \A k \in 1..Len(failed) : failed[k] # RecordedPosition'
        /\ failed # << >> => RecordedPosition' # start

C18_RecordsSucceedingPosition == [][C18_SuccessStep]_vars

\* a call from groq's first model was answered by openrouter's third one
C18_Witness ==
    /\ pc = "done"
    /\ start = << "groq", 0 >>
    /\ attempted[Len(attempted)] = << "openrouter", 2 >>
    /\ RecordedPosition = << "openrouter", 2 >>
    /\ result = ClientReply("openrouter", 2, messages)

(***************************************************************************)
(* C20: a call of invoke_with_fallback that is handed the MockChatLLM      *)
(* returns the fixed safe-mode text in the same step, attempts no          *)
(* provider, and leaves the recorded current position as it was.           *)
(***************************************************************************)
C20_MockEntryStep ==
    (pc = "idle" /\ pc' # "idle" /\ llm' = "mock" /\ failed' = << >>) =>
        /\ pc' = "done"
        /\ result' = SafeModeText
        /\ attempted' = << SafeMode >>
        /\ RecordedPosition' = RecordedPosition

C20_MockReturnsAtOnce == [][C20_MockEntryStep]_vars

\* a call handed the MockChatLLM has returned; the recorded position is
\* still the one an earlier call left
C20_Witness ==
    /\ pc = "done"
    /\ llm = "mock"
    /\ attempted = << SafeMode >>
    /\ result = SafeModeText
    /\ RecordedPosition = << "openrouter", 2 >>

(***************************************************************************)
(* C13: provider exhaustion is not a failure of the operation that asked   *)
(* for text: when answer_query, execute_query or summarize_dataset was     *)
(* handed the safe-mode notice by the cascade, the result it returns is    *)
(* not an error result and the text it carries is the notice.              *)
(***************************************************************************)
C13_ExhaustionIsNotFailure ==
    (op_result.op \in AgentOps /\ op_result.reply = SafeModeText) =>
        /\ "error" \notin op_result.keys
        /\ op_result.status # "failed"
        /\ op_result.text = SafeModeText

(***************************************************************************)
(* C17: a process whose model lists are not all non-empty is rejected at   *)
(* startup: no operation ever awaits the cascade in it, and a missing      *)
(* entry is never logged as one more provider failure of a call.           *)
(***************************************************************************)
C17_EmptyListRejected ==
    (\E p \in Providers : ModelsOf(p) = << >>) =>
        /\ pc = "idle"
        /\ caller = "<none>"
        /\ failed = << >>
        /\ op_result = NoOpResult

(***************************************************************************)
(* C19: a call of invoke_with_fallback does not depend on earlier calls.   *)
(* The positions attempted and the result are a function of the start      *)
(* position, the messages and the providers' responses to this call: the   *)
(* j-th attempt is the j-th ladder entry from the start, the failures are  *)
(* the attempts before the last, and the result is the reply of the last   *)
(* position attempted.  An agent's call starts at its configured start,    *)
(* (groq, 0), whatever position earlier calls recorded.                    *)
(***************************************************************************)
C19_IndependentOfEarlierCalls ==
    pc # "idle" =>
        /\ caller \in AgentOps => start = << "groq", 0 >>
        /\ attempted # << >>
        /\ \A j \in 1..Len(attempted) :
              LadderIndex(attempted[j]) = LadderIndex(start) + j - 1
        /\ failed = SubSeq(attempted, 1, Len(failed))
        /\ Len(failed) = IF pc = "raised" THEN Len(attempted)
                                          ELSE Len(attempted) - 1
        /\ pc = "done" =>
              LET last == attempted[Len(attempted)]
              IN  result = IF last = SafeMode THEN SafeModeText
                           ELSE ClientReply(last[1], last[2], messages)

\* an earlier call had to fall back to openrouter; the next operation
\* probes groq's first model again
C19_Witness ==
    /\ pc = "inflight"
    /\ caller = "execute_query"
    /\ attempted = << << "groq", 0 >> >>
    /\ RecordedPosition = << "openrouter", 3 >>

(***************************************************************************)
(* C24: every stage writes only the fields it owns and the shared state is *)
(* append-only.  A step that changes the state of a run is either          *)
(* run_workflow building the initial state, or the return of the running   *)
(* stage, which changes only fields that stage owns (interpret: df and     *)
(* summary; quality: quality_report; statistics: statistics;               *)
(* visualization: visualizations; forecast: forecast; report:              *)
(* final_report), none of them written before in the run, and leaves all   *)
(* of its own fields written; file_path and task_id never change once the  *)
(* run has its state.                                                      *)
(***************************************************************************)
C24_WriteStep ==
    \A r \in RunIds :
        state'[r] # state[r] =>
            \/ /\ run_status[r] = "Pending"
               /\ state[r] = NoState
               /\ Populated(state'[r]) = {}
            \/ /\ state'[r].file_path = state[r].file_path
               /\ state'[r].task_id = state[r].task_id
               /\ \E n \in running[r] :
                     /\ \A f \in FragmentFields :
                           state'[r][f] # state[r][f] =>
                              f \in StageFields(n) /\ f \notin Populated(state[r])
                     /\ StageFields(n) \subseteq Populated(state'[r])

C24_OwnFieldsAppendOnly == [][C24_WriteStep]_vars

\* a run has all six fragments, each written once by its stage
C24_Witness ==
    \E r \in RunIds :
        /\ returned[r] = Nodes
        /\ Populated(state[r]) = FragmentFields
        /\ state[r].task_id = r
        /\ state[r].file_path = FilePath(r, "sales.csv")

(***************************************************************************)
(* C29: a failure inside the forecast computation (fitting, prediction or  *)
(* plotting raises) is local.  run_forecast returns the fragment with      *)
(* status "failed" and the error text, the forecast stage merges it, the   *)
(* run is not failed by it, report is the next stage and can start, and    *)
(* the state a completed run hands back still holds that fragment.         *)
(***************************************************************************)
C29_ForecastFailureLocal ==
    \A r \in RunIds :
        ("forecast" \in returned[r]
            /\ Get(ForecastOf(state[r]), "status") = "failed") =>
              /\ detect_time_series(state[r].df)
              /\ Keys(ForecastOf(state[r])) = {"status", "error"}
              /\ Get(ForecastOf(state[r]), "error") # "None"
              /\ "forecast" \in Populated(state[r])
              /\ raised[r] \in {"none", "report"}
              /\ "report" \in pending[r] \cup running[r] \cup returned[r]
                                \cup {raised[r]}
              /\ "report" \in pending[r] => ENABLED NodeStart(r, "report")
              /\ run_status[r] = "Completed" =>
                    Get(ForecastOf(wf_result[r]), "status") = "failed"

\* a run whose forecast computation failed has completed, report included
C29_Witness ==
    \E r \in RunIds :
        /\ run_status[r] = "Completed"
        /\ Get(ForecastOf(wf_result[r]), "status") = "failed"
        /\ executed[r] = StageOrder
        /\ "final_report" \in Populated(wf_result[r])

(***************************************************************************)
(* C25: every started run follows Pending -> Running -> Completed or       *)
(* Failed and, provided each stage call returns or raises, reaches         *)
(* Completed or Failed: a stage's exception ends run_workflow in Failed    *)
(* instead of leaving it, and a run never leaves a terminal state.         *)
(***************************************************************************)
Terminal == {"Completed", "Failed"}

C25_StatusStep ==
    \A r \in RunIds :
        /\ run_status'[r] # run_status[r] =>
              << run_status[r], run_status'[r] >> \in StatusMoves
        /\ run_status[r] \in Terminal =>
              /\ run_status'[r] = run_status[r]
              /\ state'[r] = state[r]
              /\ executed'[r] = executed[r]
        /\ (raised'[r] # "none" /\ raised[r] = "none") =>
              run_status'[r] = "Failed"

C25_RunTerminates ==
    /\ [][C25_StatusStep]_vars
    /\ \A r \in RunIds :
          (run_status[r] = "Pending") ~> (run_status[r] \in Terminal)

\* one run completed and another failed at its third stage
C25_Witness ==
    \E r, q \in RunIds :
        /\ run_status[r] = "Completed"
        /\ executed[r] = StageOrder
        /\ run_status[q] = "Failed"
        /\ raised[q] = "statistics"

(***************************************************************************)
(* C21: running the same dataset through the pipeline twice yields         *)
(* structurally identical shared states.  Two completed runs of the same   *)
(* file whose forecast computation ended the same way have the same        *)
(* populated fields, the same kind of value in every fragment and the same *)
(* keys in the forecast fragment; they differ only in what is generated    *)
(* per run (the run that made the value, standing for the file names).     *)
(***************************************************************************)
Structure(st) ==
    [f \in FragmentFields |->
        IF f = "forecast" THEN Keys(st[f][1]) ELSE {st[f][1]}]

C28_RecordStep ==
    RecordedPosition' # RecordedPosition =>
        \/ /\ pc = "inflight"
           /\ pc' = "done"
           /\ result' # SafeModeText
           /\ RecordedPosition' = << provider, model_index >>
        \/ /\ RecordedPosition' = << "ollama", 0 >>
           /\ pc' = pc
           /\ attempted' = attempted
           /\ result' = result

C28_RecordedOnlyOnSuccess == [][C28_RecordStep]_vars

\* a call ended in safe mode after every attempt failed, and the pair still
\* names the position where an earlier call succeeded
C28_Witness ==
    /\ pc = "done"
    /\ result = SafeModeText
    /\ Len(failed) > 0
    /\ RecordedPosition = << "groq", 2 >>

(***************************************************************************)
(* C27: under any interleaving of concurrent invoke_with_fallback calls    *)
(* the recorded pair is at every moment the initial ("ollama", 0) or the   *)
(* (provider, model_index) of one single attempt that succeeded: it is a   *)
(* position of the ladder, and it changes only in the step in which one    *)
(* task's attempt succeeds, to exactly that attempt's pair, or by a reset. *)
(***************************************************************************)
C27_WriteStep ==
    RecordedPosition' # RecordedPosition =>
        \/ \E t \in TaskIds :
              /\ tasks[t].pc = "inflight"
              /\ tasks'[t] = IdleTask
              /\ RecordedPosition' =
                    << tasks[t].provider, tasks[t].model_index >>
        \/ /\ RecordedPosition' = << "ollama", 0 >>
           /\ tasks' = tasks

C27_PairNeverTorn ==
    /\ [](\E k \in 1..Len(Ladder) : Ladder[k] = RecordedPosition)
    /\ [][C27_WriteStep]_vars

\* two calls are in flight at positions that differ in provider and in
\* index, after a third position was recorded
C27_Witness ==
    \E t, u \in TaskIds :
        /\ tasks[t].pc = "inflight"
        /\ tasks[u].pc = "inflight"
        /\ tasks[t].provider = "groq"
        /\ tasks[t].model_index = 5
        /\ tasks[u].provider = "huggingface"
        /\ tasks[u].model_index = 1
        /\ RecordedPosition = << "openrouter", 3 >>

(***************************************************************************)
(* C22: get_llm_response tries Groq, then OpenRouter, then HuggingFace,    *)
(* each at most once and in that order; it returns the first successful    *)
(* provider's text without calling a later one; it always returns; when    *)
(* all three fail it returns the notice with the three errors in the       *)
(* order Groq, OpenRouter, HuggingFace; a provider whose key is missing    *)
(* counts as failed, with the error "No <provider> Key".                   *)
(***************************************************************************)
C22_FallbackOrder ==
    /\ Len(space_calls) <= Len(SpaceProviders)
    /\ space_calls = SubSeq(SpaceProviders, 1, Len(space_calls))
    /\ space_pc \in SpaceNames \cup {"idle", "returned"}
    /\ \A k \in 1..Len(space_errors) :
          /\ SubSeq(space_errors[k], 1, 2) = << SpaceProviders[k], ":" >>
          /\ SpaceProviders[k] \notin api_keys =>
                space_errors[k] =
                    ErrorLine(SpaceProviders[k], NoKey(SpaceProviders[k]))
    /\ space_pc \in SpaceNames =>
          /\ space_pc \in api_keys
          /\ space_calls[Len(space_calls)] = space_pc
          /\ Len(space_errors) = Len(space_calls) - 1
    /\ space_pc = "returned" =>
          \/ /\ space_reply.by \in api_keys
             /\ space_reply.prompt = space_prompt
             /\ space_calls[Len(space_calls)] = space_reply.by
             /\ Len(space_errors) = Len(space_calls) - 1
          \/ /\ space_reply.by = "notice"
             /\ space_calls = SpaceProviders
             /\ Len(space_errors) = Len(SpaceProviders)
             /\ space_reply.errors = space_errors

\* the notice was returned after a missing key, a failed request and
\* another failed request
C22_Witness ==
    /\ space_pc = "returned"
    /\ space_reply.by = "notice"
    /\ api_keys = {"OpenRouter", "HuggingFace"}
    /\ space_reply.errors[1] = << "Groq", ":", "No", "Groq", "Key" >>
    /\ space_reply.errors[2] = << "OpenRouter", ":", "Timeout" >>
    /\ space_reply.errors[3] = << "HuggingFace", ":", "Error" >>

(***************************************************************************)
(* C23: once analyze_dataset has answered a successful upload with task    *)
(* id T, get_file_path(T) is T's file in every later state, whatever the   *)
(* background run is doing, and a sql_query with dataset_id T or a         *)
(* semantic_query with context_id T resolves that file and never answers   *)
(* "Dataset not found".                                                    *)
(***************************************************************************)
Accepted == { r \in RunIds : response[r] = "processing" }

C23_QueryStep ==
    \A r \in Accepted :
        (last_query' # last_query /\ last_query'.id = Uuid(r)) =>
            /\ last_query'.file \in uploads
            /\ last_query'.file[1] = r
            /\ last_query'.reply = "agent result"

C23_ResolvesOwnDataset ==
    /\ [](\A r \in Accepted :
            get_file_path(Uuid(r)) = { fp \in uploads : fp[1] = r })
    /\ [][C23_QueryStep]_vars

\* a semantic query resolved the dataset of a run that has failed, while
\* another run is still under way
C23_Witness ==
    \E r, q \in RunIds :
        /\ run_status[r] = "Failed"
        /\ run_status[q] = "Running"
        /\ last_query.endpoint = "semantic_query"
        /\ last_query.id = Uuid(r)
        /\ last_query.file[1] = r

(***************************************************************************)
(* C26: get_file_path(id) returns a file only of the run whose task id     *)
(* equals id; an id that is empty or the beginning of a task id is         *)
(* answered "Dataset not found".                                           *)
(***************************************************************************)
C26_OnlyOwnRun ==
    /\ last_query.file # NoFile => Uuid(last_query.file[1]) = last_query.id
    /\ (last_query.endpoint = "sql_query"
          /\ last_query.id \in { << >>, << "u" >> }) =>
            last_query.reply = "Dataset not found."

(***************************************************************************)
(* C30: a query submitted from the Query Data page after an upload         *)
(* reaches the agent of the endpoint it is routed to: neither endpoint     *)
(* rejects the page's request as lacking an id.                            *)
(***************************************************************************)
C30_PageReachesAgent ==
    (last_query.client = "frontend" /\ Accepted # {}) =>
        last_query.reply \notin
            { "Context ID (Task ID) is required.", "422" }

====
